---- MODULE Spec2Model ----
(***************************************************************************)
(* A model of src/main.py: the play-money hand-history converter.          *)
(*                                                                         *)
(* Text is modelled by TLA+ strings, one character per position, so that   *)
(* readline, splitlines, the regular expressions of the parser and of the  *)
(* amount converter, re.sub and str.strip are computed character by        *)
(* character as Python computes them.                                      *)
(*                                                                         *)
(* Three specifications share the same operators:                          *)
(*   Spec        the driver loop of main over a whole input file,          *)
(*   RecordSpec  the processing of one block, one parser step at a time,   *)
(*   ConvertSpec the eleven conversion rules applied to one body line,     *)
(*               twice over.                                               *)
(***************************************************************************)
EXTENDS Integers, Sequences, FiniteSets, TLC

(***************************************************************************)
(* Characters and strings                                                  *)
(***************************************************************************)

\* s[i] of a Python string (1-based here)
CharAt(s, i) == SubSeq(s, i, i)

Digits == {"0", "1", "2", "3", "4", "5", "6", "7", "8", "9"}

DigitVal(c) ==
    CASE c = "0" -> 0 [] c = "1" -> 1 [] c = "2" -> 2 [] c = "3" -> 3
      [] c = "4" -> 4 [] c = "5" -> 5 [] c = "6" -> 6 [] c = "7" -> 7
      [] c = "8" -> 8 [] c = "9" -> 9

DigitChar(d) ==
    CASE d = 0 -> "0" [] d = 1 -> "1" [] d = 2 -> "2" [] d = 3 -> "3"
      [] d = 4 -> "4" [] d = 5 -> "5" [] d = 6 -> "6" [] d = 7 -> "7"
      [] d = 8 -> "8" [] d = 9 -> "9"

\* str.isdigit(): non-empty and every character a digit
isdigit(s) == Len(s) > 0 /\ \A i \in 1..Len(s) : CharAt(s, i) \in Digits

\* int(s) of a digit string (leading zeros allowed)
RECURSIVE int(_)
int(s) ==
    IF Len(s) = 0 THEN 0
    ELSE 10 * int(SubSeq(s, 1, Len(s) - 1)) + DigitVal(CharAt(s, Len(s)))

\* str(n) of a non-negative integer
RECURSIVE str(_)
str(n) == IF n < 10 THEN DigitChar(n) ELSE str(n \div 10) \o DigitChar(n % 10)

\* The least element of a non-empty set of integers
Least(S) == CHOOSE x \in S : \A y \in S : x <= y

\* The greatest element of a non-empty set of integers
Greatest(S) == CHOOSE x \in S : \A y \in S : y <= x

\* sub occurs in s at position i
OccursAt(s, sub, i) ==
    i + Len(sub) - 1 <= Len(s) /\ SubSeq(s, i, i + Len(sub) - 1) = sub

\* The first position from p on where sub occurs in s, 0 when there is none
FindFrom(s, sub, p) ==
    LET i == CHOOSE i \in p..(Len(s) + 1) :
                 /\ i = Len(s) + 1 \/ OccursAt(s, sub, i)
                 /\ \A j \in p..(i - 1) : ~OccursAt(s, sub, j)
    IN  IF i = Len(s) + 1 THEN 0 ELSE i

\* s.find(sub), 1-based: the first position of sub in s, 0 (Python's -1)
\* when there is none
find(s, sub) == FindFrom(s, sub, 1)

\* s.replace(old, new), and re.sub(old, new, s) for a pattern old that is a
\* non-empty run of digits: every non-overlapping occurrence, leftmost first
RECURSIVE ReplaceFrom(_, _, _, _)
ReplaceFrom(s, old, new, p) ==
    LET i == FindFrom(s, old, p)
    IN  IF i = 0 THEN SubSeq(s, p, Len(s))
        ELSE SubSeq(s, p, i - 1) \o new \o ReplaceFrom(s, old, new, i + Len(old))

replace(s, old, new) == ReplaceFrom(s, old, new, 1)

Whitespace == {" ", "\n", "\r", "\t"}

\* str.strip(): from the first to the last character that is not whitespace
strip(s) ==
    IF \A i \in 1..Len(s) : CharAt(s, i) \in Whitespace THEN ""
    ELSE LET a == CHOOSE i \in 1..Len(s) :
                      /\ CharAt(s, i) \notin Whitespace
                      /\ \A j \in 1..(i - 1) : CharAt(s, j) \in Whitespace
             b == CHOOSE i \in 1..Len(s) :
                      /\ CharAt(s, i) \notin Whitespace
                      /\ \A j \in (i + 1)..Len(s) : CharAt(s, j) \in Whitespace
         IN  SubSeq(s, a, b)

\* The end of the line that starts at p: the position of its "\n", or
\* Len(s) when the text ends first
LineEnd(s, p) == LET i == FindFrom(s, "\n", p) IN IF i = 0 THEN Len(s) ELSE i

\* The lines of s, each with its terminator: what file.readline() returns
\* call after call, and what iterating a StringIO yields.  The texts of the
\* model break their lines with "\n" and "\r\n" only.
RECURSIVE KeepLines(_, _)
KeepLines(s, p) ==
    IF p > Len(s) THEN <<>>
    ELSE LET e == LineEnd(s, p)
         IN  <<SubSeq(s, p, e)>> \o KeepLines(s, e + 1)

\* One line without its terminator ("\n", "\r\n" or "\r")
Chomp(l) ==
    LET n == Len(l)
    IN  IF n >= 2 /\ SubSeq(l, n - 1, n) = "\r\n" THEN SubSeq(l, 1, n - 2)
        ELSE IF n >= 1 /\ CharAt(l, n) \in {"\n", "\r"} THEN SubSeq(l, 1, n - 1)
        ELSE l

\* str.splitlines() of a text whose line breaks are "\n" and "\r\n"
splitlines(s) == LET ls == KeepLines(s, 1) IN [i \in 1..Len(ls) |-> Chomp(ls[i])]

(***************************************************************************)
(* Regular expressions.  A pattern is a sequence of tokens:                *)
(*   Lit(s)  the literal text s                                            *)
(*   Num     a captured group: a greedy run of the digits 0-9, maybe empty *)
(*   Dot     a captured group: a greedy run of any characters but "\n"     *)
(*   DotSkip the same run, not captured                                    *)
(* A match is [ok, groups], groups being the captured spans <<from, to>>.  *)
(***************************************************************************)

Lit(s) == [k |-> "lit", s |-> s]
Num == [k |-> "num", s |-> ""]
Dot == [k |-> "any", s |-> ""]
DotSkip == [k |-> "skip", s |-> ""]

NoMatch == [ok |-> FALSE, groups |-> <<>>]

\* The longest run from p of digits (num) or of characters other than "\n"
Stops(k, line, i) ==
    IF k = "num" THEN CharAt(line, i) \notin Digits ELSE CharAt(line, i) = "\n"

Run(k, line, p) ==
    (CHOOSE i \in p..(Len(line) + 1) :
         /\ i = Len(line) + 1 \/ Stops(k, line, i)
         /\ \A j \in p..(i - 1) : ~Stops(k, line, j)) - p

\* The pattern from token i matched at position p; a repetition takes the
\* longest run that lets the rest of the pattern match (Greedy, given the
\* longest run n the line allows)
RECURSIVE MatchHere(_, _, _, _)
RECURSIVE Greedy(_, _, _, _, _)
MatchHere(pat, i, line, p) ==
    IF i > Len(pat) THEN [ok |-> TRUE, groups |-> <<>>]
    ELSE IF pat[i].k = "lit"
         THEN LET n == Len(pat[i].s)
              IN  IF p + n - 1 <= Len(line) /\ SubSeq(line, p, p + n - 1) = pat[i].s
                  THEN MatchHere(pat, i + 1, line, p + n)
                  ELSE NoMatch
         ELSE Greedy(pat, i, line, p, Run(pat[i].k, line, p))

Greedy(pat, i, line, p, n) ==
    LET fits == {m \in 0..n : MatchHere(pat, i + 1, line, p + m).ok}
    IN  IF fits = {} THEN NoMatch
        ELSE LET m == Greatest(fits)
                 r == MatchHere(pat, i + 1, line, p + m)
             IN  IF pat[i].k = "skip" THEN r
                 ELSE [ok |-> TRUE, groups |-> <<<<p, p + m - 1>>>> \o r.groups]

\* re.search(pat, line): the leftmost match
search(pat, line) ==
    LET starts == {p \in 1..(Len(line) + 1) : MatchHere(pat, 1, line, p).ok}
    IN  IF starts = {} THEN NoMatch ELSE MatchHere(pat, 1, line, Least(starts))

\* obj.group(index)
group(line, obj, index) == SubSeq(line, obj.groups[index][1], obj.groups[index][2])

(***************************************************************************)
(* HandError, Hand and PokerStarsHand                                      *)
(***************************************************************************)

\* Python's None, for the string attributes Hand.__init__ sets to None and for
\* the ones (btn, sb, bb) that do not exist until the parser assigns them;
\* play_money, None or True in the code, is FALSE or TRUE here
None == "<None>"

\* Network; 0 stands for the None of an unclassified hand
UNKNOWN == 1
POKERSTARS == 2

\* str(HandError(msg, id))
HandError_str(msg, id) == IF id # "" THEN msg \o " -> id: " \o id ELSE msg

\* Hand.__init__
Hand(text) ==
    [text |-> text, network |-> 0, date_time_stamp |-> None, id |-> None,
     play_money |-> FALSE, table_name |-> None, table_size |-> None,
     game_type |-> None, btn |-> None, sb |-> None, bb |-> None]

\* How a method ends: exc = "" (it returned), "HandError" (with msg and id)
\* or the name of another exception it let through; hand is the object as
\* the method left it
Returned(h) == [exc |-> "", hand |-> h, msg |-> "", id |-> ""]
Raised(h, msg, id) == [exc |-> "HandError", hand |-> h, msg |-> msg, id |-> id]
Threw(h, exc) == [exc |-> exc, hand |-> h, msg |-> "", id |-> ""]

NetworkMarker == "PokerStars"

\* _parse_network without the raise of line 75
parse_network_silent(h) ==
    LET l == splitlines(h.text)[1]
    IN  IF find(l, NetworkMarker) # 0
        THEN Returned([h EXCEPT !.network = POKERSTARS])
        ELSE Returned([h EXCEPT !.network = UNKNOWN])

\* Hand._parse_network
parse_network(h) ==
    LET l == splitlines(h.text)[1]
    IN  IF find(l, NetworkMarker) # 0
        THEN Returned([h EXCEPT !.network = POKERSTARS])
        ELSE Raised([h EXCEPT !.network = UNKNOWN], "Unknown network: " \o l, "")

\* Hand.network: the cached classification, computed on the first call
network(h) == IF h.network = 0 THEN parse_network(h) ELSE Returned(h)

\* r"Hand #([0-9]*):"
HandIdRe == <<Lit("Hand #"), Num, Lit(":")>>

\* PokerStarsHand._parse_id
parse_id(h) ==
    LET l == splitlines(h.text)[1]
        obj == search(HandIdRe, l)
    IN  IF obj.ok THEN Returned([h EXCEPT !.id = group(l, obj, 1)])
        ELSE Raised(h, "Unable to parse hand id: " \o l, "")

\* r"Table '(.*)' (.*) \((.*)\) Seat #([0-9]*) is the button"
TableHeaderRe ==
    <<Lit("Table '"), Dot, Lit("' "), Dot, Lit(" ("), Dot, Lit(") Seat #"), Num,
      Lit(" is the button")>>

\* PokerStarsHand._parse_table_header; splitlines()[1] of a one-line block
\* is an IndexError
parse_table_header(h) ==
    IF Len(splitlines(h.text)) < 2 THEN Threw(h, "IndexError")
    ELSE LET l == splitlines(h.text)[2]
             obj == search(TableHeaderRe, l)
         IN  IF obj.ok
             THEN IF group(l, obj, 3) = "Play Money"
                  THEN Returned([h EXCEPT !.play_money = TRUE,
                                          !.table_name = group(l, obj, 1),
                                          !.table_size = group(l, obj, 2),
                                          !.btn = group(l, obj, 4)])
                  ELSE Raised(h, "Unknown play money table header: " \o l, h.id)
             ELSE Raised(h, "Unable to parse table header: " \o l, h.id)

\* str(n * 0.00001): repr of the binary64 product, as CPython prints it,
\* for the stakes that occur in the model's headers
float_str(n) ==
    CASE n = 1 -> "1e-05"
      [] n = 2 -> "2e-05"
      [] n = 100 -> "0.001"
      [] n = 200 -> "0.002"
      [] n = 100000 -> "1.0"
      [] n = 200000 -> "2.0"
      [] n = 300000 -> "3.0000000000000004"
      [] n = 600000 -> "6.000000000000001"

\* r"Hold'em (.*) \(([0-9]*)/([0-9]*).*\) - (.*)"
HandHeaderRe ==
    <<Lit("Hold'em "), Dot, Lit(" ("), Num, Lit("/"), Num, DotSkip, Lit(") - "), Dot>>

GameTypes == {"No Limit", "Pot Limit", "Fixed Limit"}

\* PokerStarsHand._parse_hand_header; int('') of an empty stake is a
\* ValueError
parse_hand_header(h) ==
    LET l == splitlines(h.text)[1]
        obj == search(HandHeaderRe, l)
    IN  IF obj.ok
        THEN IF group(l, obj, 2) = "" THEN Threw(h, "ValueError")
             ELSE IF group(l, obj, 3) = ""
                  THEN Threw([h EXCEPT !.sb = float_str(int(group(l, obj, 2)))],
                             "ValueError")
             ELSE LET h1 == [h EXCEPT !.sb = float_str(int(group(l, obj, 2))),
                                      !.bb = float_str(int(group(l, obj, 3)))]
                  IN  IF group(l, obj, 1) \in GameTypes
                      THEN Returned([h1 EXCEPT !.game_type = group(l, obj, 1),
                                               !.date_time_stamp = group(l, obj, 4)])
                      ELSE Raised(h1, "Game type not recognised: " \o l, h.id)
        ELSE Raised(h, "Unable to parse blind amounts: " \o l, h.id)

\* PokerStarsHand.parse: the three parsers in order, stopping at the first
\* that raises
parse(h) ==
    LET r1 == parse_id(h)
    IN  IF r1.exc # "" THEN r1
        ELSE LET r2 == parse_table_header(r1.hand)
             IN  IF r2.exc # "" THEN r2 ELSE parse_hand_header(r2.hand)

(***************************************************************************)
(* The amount converter and the record formatter                           *)
(***************************************************************************)

\* The amounts n = 500 (mod 1000) below 1,000,000 whose binary64 product
\* n * 0.00001 lies below the decimal tie, so that "{:.2f}" rounds them down
TiesDown ==
    {12500, 15500, 62500, 110500, 111500, 112500, 208500, 210500, 212500,
     235500, 262500, 400500, 404500, 408500, 412500, 429500, 433500, 454500,
     458500, 462500, 483500, 512500, 804500, 812500, 813500, 821500, 829500,
     846500, 854500, 862500, 871500, 879500, 896500, 904500, 912500, 929500,
     954500, 962500, 979500}

\* The hundredths "{:.2f}".format(n * 0.00001) shows: n / 1000 rounded to
\* the nearest integer, a tie going where the binary64 product lies
Cents(n) ==
    IF n % 1000 = 500 /\ n \in TiesDown THEN n \div 1000 ELSE (n + 500) \div 1000

\* "${:.2f}".format(n * 0.00001)
format_amount(n) ==
    LET c == Cents(n)
    IN  "$" \o str(c \div 100) \o "." \o DigitChar((c % 100) \div 10) \o DigitChar(c % 10)

\* The amount with the ".00" left in place
currency_with_cents(n) == format_amount(n)

\* "${:.2f}".format(amount).replace('.00', '')
currency(n) == replace(format_amount(n), ".00", "")

\* The loop of _convert over the groups of the match obj made on line0:
\* each group that is a run of digits is substituted, by value, in the line
\* as the earlier groups left it
RECURSIVE convert_groups(_, _, _, _)
convert_groups(obj, line0, l, index) ==
    IF index > Len(obj.groups) THEN l
    ELSE LET g == group(line0, obj, index)
         IN  IF isdigit(g)
             THEN convert_groups(obj, line0, replace(l, g, currency(int(g))), index + 1)
             ELSE convert_groups(obj, line0, l, index + 1)

\* PokerStarsHand._convert
convert(regex, l) ==
    LET obj == search(regex, l)
    IN  IF obj.ok THEN convert_groups(obj, l, l, 1) ELSE l

\* The eleven rules of PokerStarsHand.print, in its order
Rules ==
    << <<Lit("("), Num, Lit(" in chips)")>>,
       <<Lit("posts "), Dot, Lit(" blind "), Num>>,
       <<Lit(": bets "), Num>>,
       <<Lit(": calls "), Num>>,
       <<Lit(": raises "), Num, Lit(" to "), Num>>,
       <<Lit(" collected "), Num, Lit(" from pot")>>,
       <<Lit(" collected ("), Num, Lit(")")>>,
       <<Lit("Total pot "), Num, Lit(" | Rake "), Num>>,
       <<Lit("and won ("), Num, Lit(") with")>>,
       <<Lit("Uncalled bet ("), Num, Lit(") returned to")>>,
       <<Lit("posts small & big blinds "), Num>> >>

\* Rules k..11 applied to a body line, each to the result of the one before
RECURSIVE convert_from(_, _)
convert_from(l, k) ==
    IF k > Len(Rules) THEN l ELSE convert_from(convert(Rules[k], l), k + 1)

\* One body line as print emits it
convert_line(l) == strip(convert_from(l, 1))

\* What PokerStarsHand.print writes: the argument of each print call
print(h) ==
    LET ls == KeepLines(h.text, 1)
    IN  <<"PokerStars Hand #" \o h.id \o ":  Hold'em " \o h.game_type \o " ($" \o h.sb
            \o "/$" \o h.bb \o " USD) - " \o h.date_time_stamp,
          "Table '" \o h.table_name \o "' " \o h.table_size \o " Seat #" \o h.btn
            \o " is the button">>
        \o [i \in 1..(Len(ls) - 2) |-> convert_line(ls[i + 2])]
        \o <<"\n\n">>

(***************************************************************************)
(* HandHistory.read_hand and the body of main's loop                       *)
(***************************************************************************)

Blank == {"\n", "\r\n"}

\* file.readline() at offset p: the line with its terminator, "" at the end
readline(f, p) == IF p > Len(f) THEN "" ELSE SubSeq(f, p, LineEnd(f, p))

\* The loop of read_hand from offset p with text accumulated.  The result is
\* the value returned (None at the end of the file), the offset reached and
\* whether _hands was incremented.
RECURSIVE read_loop(_, _, _)
read_loop(f, p, text) ==
    LET l == readline(f, p)
    IN  IF l = "" THEN [text |-> None, pos |-> p, counted |-> FALSE]
        ELSE IF l \notin Blank THEN read_loop(f, p + Len(l), text \o l)
        ELSE IF text # "" THEN [text |-> text, pos |-> p + Len(l), counted |-> TRUE]
        ELSE read_loop(f, p + Len(l), text)

\* read_hand with the separator test of line 31 reduced to "the line is
\* blank": a blank line ends the block even when nothing was accumulated
RECURSIVE read_loop_eager(_, _, _)
read_loop_eager(f, p, text) ==
    LET l == readline(f, p)
    IN  IF l = "" THEN [text |-> None, pos |-> p, counted |-> FALSE]
        ELSE IF l \notin Blank THEN read_loop_eager(f, p + Len(l), text \o l)
        ELSE [text |-> text, pos |-> p + Len(l), counted |-> TRUE]

read_hand_eager(f, p) == read_loop_eager(f, p, "")

\* read_hand without the increment of line 33
read_hand_uncounted(f, p) == [read_loop(f, p, "") EXCEPT !.counted = FALSE]

\* HandHistory.read_hand
read_hand(f, p) == read_loop(f, p, "")

\* Lines 182-185 of main: classify the block, then parse it.  A hand whose
\* network is not POKERSTARS keeps the class Hand, which has no parse.
process(text) ==
    LET r == network(Hand(text))
    IN  IF r.exc # "" THEN r
        ELSE IF r.hand.network = POKERSTARS THEN parse(r.hand)
        ELSE Threw(r.hand, "AttributeError")

\* '{} hands, {} errors\n'.format(history.hands(), errors)
summary(h, e) == str(h) \o " hands, " \o str(e) \o " errors\n"

(***************************************************************************)
(* State                                                                   *)
(***************************************************************************)

VARIABLES
    file,    \* the content of the input file
    pos,     \* the offset of the next character readline will return
    hands,   \* HandHistory._hands
    errors,  \* main's errors
    out,     \* standard output: the argument of each print call
    err,     \* standard error: each string written
    pc,      \* where the run (Spec) or the record (RecordSpec) stands
    blocks,  \* history: the texts read_hand has returned
    hand,    \* the Hand object of the record being processed (RecordSpec)
    line,    \* the body line being converted (ConvertSpec)
    rule,    \* the next rule to apply to it
    pass,    \* 1: first conversion, 2: conversion of the result, 3: over
    pass1    \* the line as the first conversion left it

vars == <<file, pos, hands, errors, out, err, pc, blocks, hand, line, rule, pass, pass1>>

(***************************************************************************)
(* Spec: main over a whole file, one action per turn of its loop           *)
(***************************************************************************)

\* The most pieces an input file is made of
MaxPieces == 4

HandLine == "PokerStars Hand #7: Hold'em No Limit (1/2 USD) - T\n"
TableLine == "Table 'A' 6 (Play Money) Seat #3 is the button\n"
BodyLine == "S: bets 100000\n"

\* What the files of the model are made of: the two blank lines, a body
\* line, a hand header alone and a hand header with its table header
Pieces == {"\n", "\r\n", BodyLine, HandLine, HandLine \o TableLine}

RECURSIVE Concat(_)
Concat(ss) == IF ss = <<>> THEN "" ELSE Head(ss) \o Concat(Tail(ss))

NoLine ==
    /\ line = ""
    /\ rule = 0
    /\ pass = 0
    /\ pass1 = ""

NoRecord == hand = Hand("") /\ NoLine

Init ==
    /\ \E n \in 0..MaxPieces : \E ps \in [1..n -> Pieces] : file = Concat(ps)
    /\ pos = 1
    /\ hands = 0
    /\ errors = 0
    /\ out = <<>>
    /\ err = <<>>
    /\ pc = "loop"
    /\ blocks = <<>>
    /\ NoRecord

\* "not text" of line 180
falsy(text) == text = None \/ text = ""

\* read_hand returned a block, as the loop of main sees it
Read(r) ==
    /\ pc = "loop"
    /\ ~falsy(r.text)
    /\ pos' = r.pos
    /\ hands' = IF r.counted THEN hands + 1 ELSE hands
    /\ blocks' = Append(blocks, r.text)

\* A turn of the loop that parses and prints the record
RecordEmitted ==
    \E r \in {read_hand(file, pos)} :
        /\ Read(r)
        /\ \E o \in {process(r.text)} :
               /\ o.exc = ""
               /\ out' = out \o print(o.hand)
        /\ UNCHANGED <<file, errors, err, pc, hand, line, rule, pass, pass1>>

\* A turn of the loop that ends in the except clause
RecordFailed ==
    \E r \in {read_hand(file, pos)} :
        /\ Read(r)
        /\ \E o \in {process(r.text)} :
               /\ o.exc = "HandError"
               /\ errors' = errors + 1
               /\ err' = Append(err, HandError_str(o.msg, o.id) \o "\n")
        /\ UNCHANGED <<file, out, pc, hand, line, rule, pass, pass1>>

\* A turn of the loop that raises what neither except clause of main
\* catches: the exception leaves main
RunAborted ==
    \E r \in {read_hand(file, pos)} :
        /\ Read(r)
        /\ process(r.text).exc \notin {"", "HandError"}
        /\ pc' = "aborted"
        /\ UNCHANGED <<file, errors, out, err, hand, line, rule, pass, pass1>>

\* read_hand returned None: the loop breaks and the summary is written
EndOfStream ==
    /\ pc = "loop"
    /\ \E r \in {read_hand(file, pos)} :
           /\ falsy(r.text)
           /\ pos' = r.pos
           /\ hands' = IF r.counted THEN hands + 1 ELSE hands
           /\ blocks' = IF r.text = None THEN blocks ELSE Append(blocks, r.text)
           /\ err' = Append(err, summary(hands', errors))
    /\ pc' = "done"
    /\ UNCHANGED <<file, errors, out, hand, line, rule, pass, pass1>>

Next == RecordEmitted \/ RecordFailed \/ RunAborted \/ EndOfStream

Spec == Init /\ [][Next]_vars

(***************************************************************************)
(* RecordSpec: one block through lines 182-189 of main, one method call    *)
(* per action; the except clause is part of the call that raises           *)
(***************************************************************************)

ExampleHandLine == "Hand #100:  Hold'em No Limit (100/200 USD) - 2024-01-01 00:00:00 UTC\n"
ExampleTableLine == "Table 'Alpha' 6-max (Play Money) Seat #3 is the button\n"
ExampleBodyLine == "Seat 1: posts small blind 100\n"

\* The first lines of the model's blocks: the example's, the same after the
\* network marker, whole-dollar stakes, an unknown game type, no stakes, no
\* hand id, and an empty id with empty stakes
FirstLines ==
    {ExampleHandLine,
     "PokerStars " \o ExampleHandLine,
     "PokerStars Hand #7: Hold'em Pot Limit (300000/600000 USD) - T\n",
     "PokerStars Hand #7: Hold'em Limit (1/2 USD) - T\n",
     "PokerStars Hand #7: x\n",
     "PokerStars x\n",
     "PokerStars Hand #: Hold'em No Limit (/ USD) - T\n",
     "PokerStars Hand #: Hold'em Fixed Limit (1/ USD) - T\n"}

\* Their second lines: none, the example's, a real-money table, no table
SecondLines ==
    {"", ExampleTableLine, "Table 'A' 6 (Real Money) Seat #3 is the button\n", "foo\n"}

\* Their bodies
Bodies == {"", ExampleBodyLine, "S: bets 300000\r\nT: raises 100000 to 1100000\n"}

RecordBlocks == {a \o b \o c : a \in FirstLines, b \in SecondLines, c \in Bodies}

NoRun ==
    /\ file = ""
    /\ pos = 1
    /\ hands = 0
    /\ blocks = <<>>

RecordInit ==
    /\ \E text \in RecordBlocks : hand = Hand(text)
    /\ pc = "raw"
    /\ errors = 0
    /\ out = <<>>
    /\ err = <<>>
    /\ NoRun
    /\ NoLine

\* A method call that ended as r: the record moves on to stage next, or the
\* except clause of lines 187-189 counts and reports the HandError, or the
\* exception leaves main
Outcome(r, next) ==
    /\ hand' = r.hand
    /\ IF r.exc = "" THEN pc' = next /\ UNCHANGED <<errors, err>>
       ELSE IF r.exc = "HandError"
            THEN /\ pc' = "errored"
                 /\ errors' = errors + 1
                 /\ err' = Append(err, HandError_str(r.msg, r.id) \o "\n")
            ELSE pc' = "aborted" /\ UNCHANGED <<errors, err>>
    /\ UNCHANGED <<file, pos, hands, out, blocks, line, rule, pass, pass1>>

\* hand.network() of line 183
Classify ==
    /\ pc = "raw"
    /\ \E r \in {network(hand)} :
           Outcome(IF r.exc = "" /\ r.hand.network # POKERSTARS
                   THEN Threw(r.hand, "AttributeError") ELSE r,
                   "classified")

ParseId ==
    /\ pc = "classified"
    /\ \E r \in {parse_id(hand)} : Outcome(r, "id_parsed")

ParseTableHeader ==
    /\ pc = "id_parsed"
    /\ \E r \in {parse_table_header(hand)} : Outcome(r, "table_parsed")

ParseHandHeader ==
    /\ pc = "table_parsed"
    /\ \E r \in {parse_hand_header(hand)} : Outcome(r, "header_parsed")

PrintHand ==
    /\ pc = "header_parsed"
    /\ out' = out \o print(hand)
    /\ pc' = "emitted"
    /\ UNCHANGED <<file, pos, hands, errors, err, blocks, hand, line, rule, pass, pass1>>

RecordNext == Classify \/ ParseId \/ ParseTableHeader \/ ParseHandHeader \/ PrintHand

RecordSpec == RecordInit /\ [][RecordNext]_vars

(***************************************************************************)
(* ConvertSpec: the eleven _convert calls of lines 155-165 on one body     *)
(* line, one call per action, and then once more on their result           *)
(***************************************************************************)

ConvertLines ==
    {ExampleBodyLine,
     "Seat 1: posts small blind 1\n",
     "posts 1 blind 21\n",
     "S: bets 300000\r\n",
     "T: raises 100000 to 1100000\n",
     "T: raises 200 to 500\n",
     "P: calls 200\n",
     "Seat 2: P (1234567 in chips)\n",
     "P collected 5 from pot\n",
     "P collected (700)\n",
     "Total pot 150000 | Rake 2500\n",
     "P showed and won (123) with a pair\n",
     "Uncalled bet (99000) returned to P\n",
     "P: posts small & big blinds 300\n",
     "Dealt to P\n"}

ConvertInit ==
    /\ line \in ConvertLines
    /\ rule = 1
    /\ pass = 1
    /\ pass1 = ""
    /\ hand = Hand("")
    /\ pc = "converting"
    /\ errors = 0
    /\ out = <<>>
    /\ err = <<>>
    /\ NoRun

\* line = self._convert(<rule>, line); after the last rule of the first pass
\* the result is kept and the rules start over on it
ApplyRule ==
    /\ pass \in {1, 2}
    /\ line' = convert(Rules[rule], line)
    /\ rule' = IF rule = Len(Rules) THEN 1 ELSE rule + 1
    /\ pass' = IF rule = Len(Rules) THEN pass + 1 ELSE pass
    /\ pass1' = IF rule = Len(Rules) /\ pass = 1 THEN line' ELSE pass1
    /\ UNCHANGED <<file, pos, hands, errors, out, err, pc, blocks, hand>>

ConvertNext == ApplyRule

ConvertSpec == ConvertInit /\ [][ConvertNext]_vars

(***************************************************************************)
(* Claims about the run of main (Spec)                                     *)
(***************************************************************************)

Last(q) == q[Len(q)]

NonBlank(l) == l \notin Blank

\* The lines of the file, and those readline has returned so far
FileLines == KeepLines(file, 1)
ConsumedLines == KeepLines(SubSeq(file, 1, pos - 1), 1)

\* C1: a failure while classifying, parsing or printing a block never halts
\* the run: the run is in its loop, or it has exhausted the stream and the
\* last thing it wrote is the summary.
C1_ErrorIsolation ==
    \/ pc = "loop"
    \/ pc = "done" /\ pos > Len(file) /\ Last(err) = summary(hands, errors)

\* The records print has emitted: one "\n\n" terminator each
Emitted == Cardinality({i \in DOMAIN out : out[i] = "\n\n"})

\* The per-record diagnostic lines written: all of err but the summary
ErrorLines == Len(err) - (IF pc = "done" THEN 1 ELSE 0)

\* C2: after every completed turn of the loop, and when main finishes,
\* records emitted + diagnostic error lines = HandHistory.hands().
C2_CountConservation ==
    pc \in {"loop", "done"} => Emitted + ErrorLines = hands

\* C2's case: a finished run over two records, one emitted and one failed
C2_Witness == pc = "done" /\ hands = 2 /\ Emitted = 1 /\ ErrorLines = 1

\* C3: at the end of the stream the content accumulated so far is returned
\* as a final block and counted, so that when the run is done every
\* non-blank line of the file has been returned in some block.
C3_FinalBlockReturned ==
    pc = "done" =>
        /\ Concat(blocks) = Concat(SelectSeq(FileLines, NonBlank))
        /\ hands = Len(blocks)

\* The lines after which a block ends: a non-blank line followed by a blank
BlockEnds(ls) == {i \in 1..(Len(ls) - 1) : NonBlank(ls[i]) /\ ~NonBlank(ls[i + 1])}

\* The k-th of them, 0 for k = 0
KthEnd(ls, k) ==
    IF k = 0 THEN 0
    ELSE CHOOSE e \in BlockEnds(ls) : Cardinality({x \in BlockEnds(ls) : x <= e}) = k

\* C4: the blocks returned so far are exactly the segments of the lines
\* consumed so far: every run of blank lines after a non-blank line ends one
\* block, the k-th block is the non-blank lines between the (k-1)-th and the
\* k-th such run in stream order, no block is empty and none holds a blank
\* line; blank lines before the first content start and end nothing.
C4_SeparatorExact ==
    LET ls == ConsumedLines
    IN  /\ Len(blocks) = Cardinality(BlockEnds(ls))
        /\ \A k \in 1..Len(blocks) :
               /\ blocks[k] # ""
               /\ \A i \in DOMAIN KeepLines(blocks[k], 1) :
                      NonBlank(KeepLines(blocks[k], 1)[i])
               /\ k <= Cardinality(BlockEnds(ls)) =>
                      blocks[k] = Concat(SelectSeq(
                          SubSeq(ls, KthEnd(ls, k - 1) + 1, KthEnd(ls, k)), NonBlank))

\* C4's case: a run of two blank lines, "\n" and "\r\n", between two
\* non-blank lines has ended one block, and the whole file has been read
C4_Witness ==
    /\ file = BodyLine \o "\n" \o "\r\n" \o BodyLine
    /\ pos > Len(file)
    /\ blocks = <<BodyLine>>

\* The next block read_hand will return, and its first line
NextBlock == read_hand(file, pos).text
FirstLine(text) == splitlines(text)[1]

\* C7: a turn of the loop on a block whose first line lacks the network
\* marker writes exactly one diagnostic line, the unknown-network error with
\* that line and no identifier, writes nothing to standard output, adds one
\* to errors and leaves the run in its loop.
C7_UnknownNetworkRejected ==
    [][(pc = "loop" /\ ~falsy(NextBlock) /\ find(FirstLine(NextBlock), "PokerStars") = 0)
          => /\ err' = Append(err, "Unknown network: " \o FirstLine(NextBlock) \o "\n")
             /\ FindFrom(Last(err'), "\n", 1) = Len(Last(err'))
             /\ out' = out
             /\ errors' = errors + 1
             /\ pc' = "loop"]_vars

\* C7's case: an unrecognised block was rejected and the next block read
C7_Witness ==
    /\ pc = "loop"
    /\ hands = 2
    /\ err[1] = "Unknown network: " \o Chomp(BodyLine) \o "\n"
    /\ Emitted = 1

(***************************************************************************)
(* Claims about one record (RecordSpec)                                    *)
(***************************************************************************)

ExampleBlock == ExampleHandLine \o ExampleTableLine \o ExampleBodyLine

\* The record has reached the end of its processing
Terminal == pc \in {"emitted", "errored", "aborted"}

\* C5, as claimed: the example block is emitted, its header shows the stakes
\* as $0.001/$0.002 and its body line reads "Seat 1: posts small blind
\* $0.001".
C5_Original ==
    (hand.text = ExampleBlock /\ Terminal) =>
        /\ pc = "emitted"
        /\ find(out[1], "($0.001/$0.002 USD)") # 0
        /\ out[3] = "Seat 1: posts small blind $0.001"

\* C5, amended: the example block, whose first line lacks the network
\* marker, is rejected with the unknown-network diagnostic and nothing is
\* emitted; with "PokerStars " before its first line it is emitted, its
\* header shows the stakes as $0.001/$0.002 and its body line reads
\* "Seat 1: posts small blind $0".
C5_Example ==
    /\ (hand.text = ExampleBlock /\ Terminal) =>
           /\ pc = "errored"
           /\ out = <<>>
           /\ err = <<"Unknown network: " \o Chomp(ExampleHandLine) \o "\n">>
    /\ (hand.text = "PokerStars " \o ExampleBlock /\ Terminal) =>
           /\ pc = "emitted"
           /\ err = <<>>
           /\ out = <<"PokerStars Hand #100:  Hold'em No Limit ($0.001/$0.002 USD) - 2024-01-01 00:00:00 UTC",
                      "Table 'Alpha' 6-max Seat #3 is the button",
                      "Seat 1: posts small blind $0",
                      "\n\n">>

\* C5's case: the example block after the network marker, emitted
C5_Witness == hand.text = "PokerStars " \o ExampleBlock /\ pc = "emitted"

\* s ends with t
EndsWith(s, t) == Len(t) <= Len(s) /\ SubSeq(s, Len(s) - Len(t) + 1, Len(s)) = t

\* C6: the diagnostic line of a failure raised after _parse_id succeeded ends
\* with " -> id: " and the extracted identifier; the line of a failure raised
\* before carries no identifier.
C6_IdentifierInDiagnostics ==
    pc = "errored" =>
        IF hand.id # None
        THEN EndsWith(Last(err), " -> id: " \o hand.id \o "\n")
        ELSE find(Last(err), " -> id: ") = 0

\* The stakes of the first line of a block, as integers
Stake(text, index) ==
    LET l == FirstLine(text) IN int(group(l, search(HandHeaderRe, l), index))

\* s from p on with each run of digits replaced by "$" and the quotient of
\* its value by 100,000
RECURSIVE WholeRendered(_, _)
WholeRendered(s, p) ==
    IF p > Len(s) THEN ""
    ELSE LET n == Run("num", s, p)
         IN  IF n = 0 THEN CharAt(s, p) \o WholeRendered(s, p + 1)
             ELSE "$" \o str(int(SubSeq(s, p, p + n - 1)) \div 100000)
                    \o WholeRendered(s, p + n)

\* Every number of the line s is an exact multiple of 100,000
AllWhole(s) ==
    \A p \in 1..Len(s) :
        (CharAt(s, p) \in Digits /\ (p = 1 \/ CharAt(s, p - 1) \notin Digits))
            => int(SubSeq(s, p, p + Run("num", s, p) - 1)) % 100000 = 0

\* C10: a chip quantity that is an exact multiple of 100,000 is rendered as
\* "$" and the integer quotient, with no decimal separator and no decimal
\* digits: the stakes stored by _parse_hand_header and printed in the
\* header, and the amounts of the body lines (here: of the body lines whose
\* numbers are all such amounts, each captured by a rule).
C10_WholeAmounts ==
    pc = "emitted" =>
        /\ Stake(hand.text, 2) % 100000 = 0 =>
               /\ hand.sb = str(Stake(hand.text, 2) \div 100000)
               /\ find(out[1], "($" \o str(Stake(hand.text, 2) \div 100000) \o "/$") # 0
        /\ Stake(hand.text, 3) % 100000 = 0 =>
               /\ hand.bb = str(Stake(hand.text, 3) \div 100000)
               /\ find(out[1], "/$" \o str(Stake(hand.text, 3) \div 100000) \o " USD)") # 0
        /\ \A i \in 3..Len(KeepLines(hand.text, 1)) :
               AllWhole(KeepLines(hand.text, 1)[i]) =>
                   out[i] = WholeRendered(strip(KeepLines(hand.text, 1)[i]), 1)

(***************************************************************************)
(* Claims about the conversion of one line (ConvertSpec)                   *)
(***************************************************************************)

\* The line l with only the spans captured by groups 1..index of obj (a match
\* made on l) replaced by their currency rendering; d is by how much the
\* earlier replacements have moved the later spans
RECURSIVE splice_groups(_, _, _)
splice_groups(obj, l, index) ==
    IF index = 0 THEN l
    ELSE LET rest == splice_groups(obj, l, index - 1)
             g == group(l, obj, index)
             d == Len(rest) - Len(l)
         IN  IF isdigit(g)
             THEN SubSeq(rest, 1, obj.groups[index][1] - 1 + d) \o currency(int(g))
                    \o SubSeq(rest, obj.groups[index][2] + 1 + d, Len(rest))
             ELSE rest

\* A rule applied in place: what the frame claim says _convert returns
in_place(regex, l) ==
    LET obj == search(regex, l)
    IN  IF obj.ok THEN splice_groups(obj, l, Len(obj.groups)) ELSE l

\* C8: a rule that matches replaces only the digit runs it captured; every
\* other character of the line, other occurrences of the same digits
\* included, is left as it was.
C8_ConversionFrame ==
    [][line' = in_place(Rules[rule], line)]_vars

\* C9: converting the result of a conversion changes nothing:
\* convert(convert(line)) = convert(line) over the eleven rules.
C9_Idempotent == pass = 3 => line = pass1

====
